---- MODULE Spec2Model ----
(***************************************************************************)
(* Model of the MongoDB sales scripts: mongodb_sales_operations.py (the    *)
(* MongoDBSalesOperations gateway and main) and create_indexes.py.         *)
(*                                                                         *)
(* The store is a collection of order documents kept in natural order (a   *)
(* sequence).  Amounts are integers (currency units), instants are integer *)
(* ticks of half a day.  Each program of the repository has its own        *)
(* specification over the shared variables:                                *)
(*   SpecInsert     insert_orders, one bulk-insert call per step           *)
(*   SpecStore      update_order_status, delete_order,                     *)
(*                  query_orders_by_date_range on a collection             *)
(*   SpecAgg        the three aggregation pipelines                        *)
(*   SpecMain       main: the operation sequence, its handler and cleanup  *)
(*   SpecIndex      create_indexes.py                                      *)
(*   SpecTransform  transform_csv_to_json, one row per step                *)
(***************************************************************************)
EXTENDS Integers, Sequences, FiniteSets, TLC

VARIABLES
    pc,               \* position of the running program
    collection,       \* db["orders"]: the documents, in natural order
    documents,        \* insert_orders: its input; transform: its output list
    batch_size,       \* insert_orders: batch_size
    i,                \* loop variable (insert_orders, create_indexes)
    inserted_count,   \* insert_orders: inserted_count
    calls,            \* the bulk-insert / create_index requests issued so far
    ret,              \* what the operation returned (NoReturn before it returns)
    call,             \* the operation called and its arguments
    before,           \* the collection when the operation was called
    log,              \* main / create_indexes: store actions and reports, in order
    created_indexes,  \* create_indexes.py: created_indexes
    table             \* transform_csv_to_json: the file read by pd.read_csv

vars == <<pc, collection, documents, batch_size, i, inserted_count, calls,
          ret, call, before, log, created_indexes, table>>

None == "None"

\* what an operation handed back: nothing yet, a value, or an exception
NoReturn == [kind |-> "none"]
Returned(v) == [kind |-> "returned", value |-> v]
Raised == [kind |-> "raised"]
NoCall == [op |-> "none"]

Min(a, b) == IF a < b THEN a ELSE b

RECURSIVE SeqsUpTo(_, _)
\* all sequences over S of length at most n
SeqsUpTo(S, n) ==
    IF n = 0 THEN {<<>>}
    ELSE LET shorter == SeqsUpTo(S, n - 1)
         IN  shorter \cup {Append(s, x) : s \in {t \in shorter : Len(t) = n - 1}, x \in S}

RECURSIVE SumSeq(_)
SumSeq(s) == IF s = <<>> THEN 0 ELSE Head(s) + SumSeq(Tail(s))

(***************************************************************************)
(* Order documents (transform_csv_to_json, lines 97-146), with the fields  *)
(* the operations read or write.                                           *)
(***************************************************************************)
Doc(id, date, status, state, category, sku, amount, quantity) ==
    [order_id |-> id, date |-> date, status |-> status,
     region   |-> [state |-> state],
     product  |-> [category |-> category, sku |-> sku],
     sales    |-> [amount |-> amount, quantity |-> quantity]]

\* Instants: 2 * day-of-April-2022 (+1 for 12:00); 0 is 2022-03-31 00:00,
\* 62 is 2022-05-01 00:00.
DocPool ==
    { Doc("A", 2,  "Shipped",   "MAHARASHTRA", "Set",   "SKU1", 10, 1),
      Doc("A", 60, "Cancelled", "KARNATAKA",   "kurta", "SKU2", 0,  0),
      Doc("B", 61, "Shipped",   "MAHARASHTRA", "kurta", "SKU2", 7,  2),
      Doc("B", 0,  "Shipped",   "KARNATAKA",   "Set",   "SKU1", 3,  1),
      Doc("A", 62, "Shipped",   "KARNATAKA",   "Set",   "SKU3", 10, 1) }

MaxColl == 3

Idle ==
    /\ documents = <<>> /\ batch_size = 0 /\ i = 0 /\ inserted_count = 0
    /\ calls = <<>> /\ ret = NoReturn /\ call = NoCall /\ before = <<>>
    /\ log = <<>> /\ created_indexes = <<>> /\ table = None

(***************************************************************************)
(* insert_orders (lines 158-188)                                           *)
(***************************************************************************)
MaxDocs == 4
MaxBatch == 3

InsertPool ==
    { Doc("A", 2,  "Shipped",   "MAHARASHTRA", "Set",   "SKU1", 10, 1),
      Doc("B", 61, "Shipped",   "MAHARASHTRA", "kurta", "SKU2", 7,  2),
      Doc("C", 0,  "Cancelled", "KARNATAKA",   "Set",   "SKU1", 0,  0) }

\* a slice that loses the last document of every chunk
BatchDropsLast(docs, from, size) == SubSeq(docs, from + 1, Min(from + size, Len(docs)) - 1)

\* documents[i:i + batch_size], i counted from 0
Batch(docs, from, size) == SubSeq(docs, from + 1, Min(from + size, Len(docs)))

\* insert_many(batch) acknowledged: every document of the batch is stored
InsertMany(coll, batch) == coll \o batch

InitInsert ==
    /\ pc = "insert_loop"
    /\ collection \in SeqsUpTo(InsertPool, 1)
    /\ before = collection
    /\ documents \in SeqsUpTo(InsertPool, MaxDocs)
    /\ batch_size \in 1..MaxBatch
    /\ call = [op |-> "insert_orders"]
    /\ i = 0 /\ inserted_count = 0 /\ calls = <<>> /\ ret = NoReturn
    /\ log = <<>> /\ created_indexes = <<>> /\ table = None

\* one iteration of the loop, lines 181-185, insert_many acknowledged
InsertBatchOk ==
    /\ pc = "insert_loop" /\ i < Len(documents)
    /\ LET batch == Batch(documents, i, batch_size)
       IN  /\ collection' = InsertMany(collection, batch)
           /\ calls' = Append(calls, [batch |-> batch, ok |-> TRUE])
           /\ inserted_count' = inserted_count + Len(batch)
    /\ i' = i + batch_size
    /\ UNCHANGED <<pc, documents, batch_size, ret, call, before, log,
                   created_indexes, table>>

\* a handler that would swallow the error and go on with the next chunk
InsertBatchFailSwallowed ==
    /\ pc = "insert_loop" /\ i < Len(documents)
    /\ calls' = Append(calls, [batch |-> Batch(documents, i, batch_size), ok |-> FALSE])
    /\ i' = i + batch_size
    /\ UNCHANGED <<pc, collection, documents, batch_size, inserted_count, ret, call,
                   before, log, created_indexes, table>>

\* insert_many raises (line 183): an ordered bulk insert keeps the documents
\* written before the error; nothing in insert_orders catches it
InsertBatchFail ==
    /\ pc = "insert_loop" /\ i < Len(documents)
    /\ LET batch == Batch(documents, i, batch_size)
       IN  /\ \E n \in 0..Len(batch) :
                 collection' = InsertMany(collection, SubSeq(batch, 1, n))
           /\ calls' = Append(calls, [batch |-> batch, ok |-> FALSE])
    /\ pc' = "raised"
    /\ UNCHANGED <<documents, batch_size, i, inserted_count, ret, call, before,
                   log, created_indexes, table>>

\* the range is exhausted: line 188
InsertReturn ==
    /\ pc = "insert_loop" /\ i >= Len(documents)
    /\ ret' = Returned(inserted_count)
    /\ pc' = "returned"
    /\ UNCHANGED <<collection, documents, batch_size, i, inserted_count, calls,
                   call, before, log, created_indexes, table>>

NextInsert == InsertBatchOk \/ InsertBatchFail \/ InsertReturn

SpecInsert == InitInsert /\ [][NextInsert]_vars

Ceil(n, b) == (n + b - 1) \div b

\* C1: when no bulk-insert call fails, insert_orders has issued exactly
\* ceil(N/B) calls, the k-th on documents (k-1)B+1 .. min(kB, N) in input
\* order, and returns N; the collection gained exactly the input, in order.
InsertOrdersBatches ==
    pc = "returned" =>
        LET N == Len(documents)
            B == batch_size
        IN  /\ Len(calls) = Ceil(N, B)
            /\ \A k \in 1..Len(calls) :
                  /\ calls[k].ok
                  /\ Len(calls[k].batch) \in 1..B
                  /\ \A j \in 1..Len(calls[k].batch) :
                        /\ (k - 1) * B + j <= N
                        /\ calls[k].batch[j] = documents[(k - 1) * B + j]
                  /\ (k < Len(calls) => Len(calls[k].batch) = B)
            /\ SumSeq([k \in 1..Len(calls) |-> Len(calls[k].batch)]) = N
            /\ ret = Returned(N)
            /\ collection = before \o documents

\* C1 witness: a run without failure whose last chunk is a short one
InsertOrdersBatchesWitness ==
    /\ pc = "returned" /\ Len(calls) >= 2
    /\ Len(documents) % batch_size # 0
    /\ \A k \in 1..Len(calls) : calls[k].ok

\* C2: a failed bulk-insert call is the last call issued; after it nothing is
\* returned, and the collection still holds, in order, what it held before
\* followed by every document of the chunks acknowledged earlier (and at most
\* a part of the failed chunk): nothing is deleted.
InsertFailureLeavesPartial ==
    /\ \A k \in 1..Len(calls) : ~calls[k].ok => k = Len(calls)
    /\ (\E k \in 1..Len(calls) : ~calls[k].ok) =>
          LET k == Len(calls)
              acked == SubSeq(documents, 1, (k - 1) * batch_size)
              kept == before \o acked
          IN  /\ pc = "raised"
              /\ ret = NoReturn
              /\ Len(collection) >= Len(kept)
              /\ SubSeq(collection, 1, Len(kept)) = kept
              /\ \E n \in 0..Len(calls[k].batch) :
                    collection = kept \o SubSeq(calls[k].batch, 1, n)

\* C2 witness: the second or a later call failed while chunks were still left
InsertFailureWitness ==
    /\ pc = "raised" /\ Len(calls) >= 2
    /\ Len(calls) * batch_size < Len(documents)
    /\ Len(collection) > Len(before)

(***************************************************************************)
(* update_order_status, delete_order, query_orders_by_date_range           *)
(* (lines 213-252, 420-462) on a collection that earlier insert_orders     *)
(* calls left behind.  The store acknowledges every request here.          *)
(***************************************************************************)
OrderIds == {"A", "B", "Z"}
NewStatuses == {"Shipped", "Updated Status"}
DateStrings == {"2022-04-01", "2022-04-30", "2022-04-30 12:00", "someday"}

\* dateutil parser.parse: a date without a time of day is that day at 00:00;
\* text that is no date raises
ParseDate(s) ==
    CASE s = "2022-03-31"       -> Returned(0)
      [] s = "2022-04-01"       -> Returned(2)
      [] s = "2022-04-30"       -> Returned(60)
      [] s = "2022-04-30 12:00" -> Returned(61)
      [] s = "2022-05-01"       -> Returned(62)
      [] OTHER                  -> Raised

\* index of the first document, in natural order, whose order_id is id; 0 if none
FirstMatch(coll, id) ==
    IF \E k \in 1..Len(coll) : coll[k].order_id = id
    THEN CHOOSE k \in 1..Len(coll) :
            /\ coll[k].order_id = id
            /\ \A j \in 1..(k - 1) : coll[j].order_id # id
    ELSE 0

\* an update issued with upsert: no match inserts a document
UpdateOneUpsert(coll, id, status) ==
    IF \E k \in 1..Len(coll) : coll[k].order_id = id
    THEN LET k == CHOOSE j \in 1..Len(coll) :
                     /\ coll[j].order_id = id
                     /\ \A h \in 1..(j - 1) : coll[h].order_id # id
         IN  [coll |-> [coll EXCEPT ![k].status = status],
              matched_count  |-> 1,
              modified_count |-> IF coll[k].status = status THEN 0 ELSE 1]
    ELSE [coll |-> Append(coll, Doc(id, 0, status, "", "", "", 0, 0)),
          matched_count |-> 0, modified_count |-> 0]

\* an update that rewrites every match, as update_many would
UpdateMany(coll, id, status) ==
    [coll |-> [k \in 1..Len(coll) |->
                  IF coll[k].order_id = id THEN [coll[k] EXCEPT !.status = status]
                  ELSE coll[k]],
     matched_count  |-> Cardinality({k \in 1..Len(coll) : coll[k].order_id = id}),
     modified_count |-> Cardinality({k \in 1..Len(coll) :
                          coll[k].order_id = id /\ coll[k].status # status})]

\* collection.update_one({"order_id": id}, {"$set": {"status": status}})
UpdateOne(coll, id, status) ==
    LET k == FirstMatch(coll, id)
    IN  IF k = 0
        THEN [coll |-> coll, matched_count |-> 0, modified_count |-> 0]
        ELSE [coll |-> [coll EXCEPT ![k].status = status],
              matched_count  |-> 1,
              modified_count |-> IF coll[k].status = status THEN 0 ELSE 1]

\* a delete that removes every match, as delete_many would
DeleteMany(coll, id) ==
    [coll |-> SelectSeq(coll, LAMBDA d : d.order_id # id),
     deleted_count |-> Cardinality({k \in 1..Len(coll) : coll[k].order_id = id})]

\* collection.delete_one({"order_id": id})
DeleteOne(coll, id) ==
    LET k == FirstMatch(coll, id)
    IN  IF k = 0
        THEN [coll |-> coll, deleted_count |-> 0]
        ELSE [coll |-> SubSeq(coll, 1, k - 1) \o SubSeq(coll, k + 1, Len(coll)),
              deleted_count |-> 1]

\* a range filter that excludes its upper bound ($lt for $lte)
FindDateRangeOpenEnd(coll, start, end) ==
    SelectSeq(coll, LAMBDA d : d.date >= start /\ d.date < end)

\* collection.find({"date": {"$gte": start, "$lte": end}})
FindDateRange(coll, start, end) ==
    SelectSeq(coll, LAMBDA d : d.date >= start /\ d.date <= end)

InitStore ==
    /\ pc = "idle"
    /\ collection \in SeqsUpTo(DocPool, MaxColl)
    /\ Idle

\* update_order_status(order_id, new_status), lines 420-441
UpdateOrderStatus ==
    /\ pc = "idle"
    /\ \E id \in OrderIds, st \in NewStatuses :
         LET result == UpdateOne(collection, id, st)
         IN  /\ call' = [op |-> "update_order_status", order_id |-> id, new_status |-> st]
             /\ collection' = result.coll
             /\ ret' = Returned([matched_count  |-> result.matched_count,
                                 modified_count |-> result.modified_count])
             /\ log' = <<IF result.matched_count > 0 THEN "updated" ELSE "not found">>
    /\ before' = collection
    /\ UNCHANGED <<pc, documents, batch_size, i, inserted_count, calls,
                   created_indexes, table>>

\* delete_order(order_id), lines 443-462
DeleteOrder ==
    /\ pc = "idle"
    /\ \E id \in OrderIds :
         LET result == DeleteOne(collection, id)
         IN  /\ call' = [op |-> "delete_order", order_id |-> id]
             /\ collection' = result.coll
             /\ ret' = Returned([deleted_count |-> result.deleted_count])
             /\ log' = <<IF result.deleted_count > 0 THEN "deleted" ELSE "not found">>
    /\ before' = collection
    /\ UNCHANGED <<pc, documents, batch_size, i, inserted_count, calls,
                   created_indexes, table>>

\* query_orders_by_date_range(start_date, end_date), lines 213-252: the
\* documents are returned, the totals are printed
QueryOrdersByDateRange ==
    /\ pc = "idle"
    /\ \E start_date \in DateStrings, end_date \in DateStrings :
         LET start == ParseDate(start_date)
             end   == ParseDate(end_date)
         IN  IF start = Raised \/ end = Raised
             THEN /\ call' = [op |-> "query_orders_by_date_range",
                              start_date |-> start_date, end_date |-> end_date]
                  /\ ret' = Raised
                  /\ log' = <<>>
             ELSE LET orders == FindDateRange(collection, start.value, end.value)
                  IN  /\ call' = [op |-> "query_orders_by_date_range",
                                  start_date |-> start_date, end_date |-> end_date,
                                  start |-> start.value, end |-> end.value]
                      /\ ret' = Returned(orders)
                      /\ log' = <<[found |-> Len(orders),
                                   total_amount |->
                                     SumSeq([k \in 1..Len(orders) |-> orders[k].sales.amount]),
                                   total_quantity |->
                                     SumSeq([k \in 1..Len(orders) |-> orders[k].sales.quantity])]>>
    /\ before' = collection
    /\ UNCHANGED <<pc, collection, documents, batch_size, i, inserted_count, calls,
                   created_indexes, table>>

NextStore == UpdateOrderStatus \/ DeleteOrder \/ QueryOrdersByDateRange

SpecStore == InitStore /\ [][NextStore]_vars

Called(op) == call.op = op

Matches(coll, id) == {k \in 1..Len(coll) : coll[k].order_id = id}

\* C5: the date-range query returns exactly the documents whose date d has
\* start <= d <= end, both bounds included, in natural order, and the total
\* amount it reports is the sum of sales.amount over the returned documents.
DateRangeQueryExact ==
    (Called("query_orders_by_date_range") /\ ret # Raised) =>
        LET inside == {k \in 1..Len(before) :
                          call.start <= before[k].date /\ before[k].date <= call.end}
        IN  /\ \A k \in 1..Len(ret.value) : call.start <= ret.value[k].date /\ ret.value[k].date <= call.end
            /\ Len(ret.value) = Cardinality(inside)
            /\ ret.value = SelectSeq(before, LAMBDA d : call.start <= d.date /\ d.date <= call.end)
            /\ log[1].total_amount = SumSeq([k \in 1..Len(ret.value) |-> ret.value[k].sales.amount])
            /\ collection = before

\* C5 witness: a query that returns a document dated exactly at each bound and
\* leaves out a document dated after the upper bound
DateRangeQueryWitness ==
    /\ Called("query_orders_by_date_range") /\ ret # Raised
    /\ \E k \in 1..Len(ret.value) : ret.value[k].date = call.start
    /\ \E k \in 1..Len(ret.value) : ret.value[k].date = call.end
    /\ call.start < call.end
    /\ \E k \in 1..Len(before) : before[k].date > call.end
    /\ log[1].total_amount > 0

\* C7: with no document of the given order_id, update_order_status reports
\* zero matched and delete_order zero deleted, and the collection is as before.
NoMatchIsNoOp ==
    /\ (Called("update_order_status") /\ Matches(before, call.order_id) = {}) =>
          /\ ret # Raised
          /\ ret.value.matched_count = 0 /\ ret.value.modified_count = 0
          /\ collection = before
    /\ (Called("delete_order") /\ Matches(before, call.order_id) = {}) =>
          /\ ret # Raised
          /\ ret.value.deleted_count = 0
          /\ collection = before

\* C7 witness: an update and a delete for an order_id no document of a
\* non-empty collection has
NoMatchUpdateWitness ==
    /\ Called("update_order_status") /\ before # <<>>
    /\ Matches(before, call.order_id) = {}

\* C8: with one or more documents of the given order_id, update_order_status
\* sets the status of the first of them and changes nothing else; it reports
\* one match, and one modification iff the previous status differed.
UpdateFirstMatchOnly ==
    (Called("update_order_status") /\ Matches(before, call.order_id) # {}) =>
        LET first == CHOOSE k \in Matches(before, call.order_id) :
                        \A j \in Matches(before, call.order_id) : k <= j
        IN  /\ Len(collection) = Len(before)
            /\ collection[first].status = call.new_status
            /\ [collection[first] EXCEPT !.status = before[first].status] = before[first]
            /\ \A k \in 1..Len(before) : k # first => collection[k] = before[k]
            /\ ret.value.matched_count = 1
            /\ (ret.value.modified_count = 1) <=> (before[first].status # call.new_status)
            /\ ret.value.modified_count \in {0, 1}

\* C8 witness: an update on a collection with two documents of the order_id,
\* whose second match keeps a status other than the new one
UpdateFirstMatchWitness ==
    /\ Called("update_order_status")
    /\ Cardinality(Matches(before, call.order_id)) >= 2
    /\ ret.value.modified_count = 1
    /\ \E k \in Matches(collection, call.order_id) : collection[k].status # call.new_status

\* C9: with k >= 1 documents of the given order_id, delete_order removes the
\* first of them and nothing else: k-1 of them are left, every other document
\* stays, in order, and one deletion is reported.
DeleteFirstMatchOnly ==
    (Called("delete_order") /\ Matches(before, call.order_id) # {}) =>
        LET first == CHOOSE k \in Matches(before, call.order_id) :
                        \A j \in Matches(before, call.order_id) : k <= j
        IN  /\ ret.value.deleted_count = 1
            /\ Len(collection) = Len(before) - 1
            /\ \A k \in 1..(first - 1) : collection[k] = before[k]
            /\ \A k \in first..Len(collection) : collection[k] = before[k + 1]
            /\ Cardinality(Matches(collection, call.order_id)) =
                 Cardinality(Matches(before, call.order_id)) - 1

\* C9 witness: a delete on a collection with two documents of the order_id
\* and one of another, after which one of the two is still there
DeleteFirstMatchWitness ==
    /\ Called("delete_order")
    /\ Cardinality(Matches(before, call.order_id)) >= 2
    /\ \E k \in 1..Len(before) : before[k].order_id # call.order_id
    /\ Matches(collection, call.order_id) # {}

(***************************************************************************)
(* The aggregation pipelines (lines 254-418): $match, $group, $project,    *)
(* $sort, $limit.  The order in which $group emits its groups is not       *)
(* defined by the store; $sort orders the groups it is given, so the order *)
(* of groups with equal total_sales varies with it.                        *)
(***************************************************************************)
MaxAggDocs == 17
RegionLimit == 10
RegionCategoryLimit == 15

StateNames == <<"MAHARASHTRA", "KARNATAKA", "TAMIL NADU", "TELANGANA", "UTTAR PRADESH",
                "DELHI", "KERALA", "WEST BENGAL", "ANDHRA PRADESH", "GUJARAT",
                "HARYANA", "RAJASTHAN">>
CategoryNames == <<"Set", "kurta", "Western Dress", "Top", "Ethnic Dress">>
StateSpreads == {1, 3, 12}
CategorySpreads == {1, 2, 5}
AmountPatterns == {"equal", "rising", "zeros"}

AmountPattern(p, k) ==
    CASE p = "equal"  -> 5
      [] p = "rising" -> k
      [] p = "zeros"  -> k % 3

\* a collection of n documents spread over s states and c categories
GenCollection(n, s, c, p) ==
    [k \in 1..n |->
        Doc(IF k % 2 = 0 THEN "A" ELSE "B", k, "Shipped",
            StateNames[(k % s) + 1], CategoryNames[(k % c) + 1],
            IF k % 4 < 2 THEN "SKU1" ELSE "SKU2", AmountPattern(p, k), 1 + (k % 2))]

Range(s) == {s[k] : k \in 1..Len(s)}

Reverse(s) == [k \in 1..Len(s) |-> s[Len(s) + 1 - k]]

RECURSIVE Distinct(_)
\* the values of s, each once, in order of first appearance
Distinct(s) ==
    IF s = <<>> THEN <<>>
    ELSE LET r == Distinct(SubSeq(s, 1, Len(s) - 1))
             x == s[Len(s)]
         IN  IF x \in Range(r) THEN r ELSE Append(r, x)

\* {"$match": {"sales.amount": {"$gt": 0}}}
MatchAmountPositive(coll) == SelectSeq(coll, LAMBDA d : d.sales.amount > 0)

\* $group by region.state, lines 276-284
GroupByRegion(docs) ==
    LET keys == Distinct([k \in 1..Len(docs) |-> docs[k].region.state])
    IN  [g \in 1..Len(keys) |->
            LET members == SelectSeq(docs, LAMBDA d : d.region.state = keys[g])
                total   == SumSeq([k \in 1..Len(members) |-> members[k].sales.amount])
            IN  [_id |-> keys[g],
                 total_sales     |-> total,
                 order_count     |-> Len(members),
                 total_quantity  |-> SumSeq([k \in 1..Len(members) |-> members[k].sales.quantity]),
                 avg_order_value |-> <<total, Len(members)>>]]

\* $group by product.category and $project, lines 330-349
GroupByCategory(docs) ==
    LET keys == Distinct([k \in 1..Len(docs) |-> docs[k].product.category])
    IN  [g \in 1..Len(keys) |->
            LET members == SelectSeq(docs, LAMBDA d : d.product.category = keys[g])
                total   == SumSeq([k \in 1..Len(members) |-> members[k].sales.amount])
            IN  [_id |-> keys[g],
                 total_sales     |-> total,
                 order_count     |-> Len(members),
                 total_quantity  |-> SumSeq([k \in 1..Len(members) |-> members[k].sales.quantity]),
                 avg_order_value |-> <<total, Len(members)>>,
                 unique_product_count |->
                     Cardinality({members[k].product.sku : k \in 1..Len(members)})]]

\* $group by (region.state, product.category), lines 387-396
GroupByRegionAndCategory(docs) ==
    LET keys == Distinct([k \in 1..Len(docs) |->
                            [state |-> docs[k].region.state,
                             category |-> docs[k].product.category]])
    IN  [g \in 1..Len(keys) |->
            LET members == SelectSeq(docs, LAMBDA d :
                               /\ d.region.state = keys[g].state
                               /\ d.product.category = keys[g].category)
            IN  [_id |-> keys[g],
                 total_sales |-> SumSeq([k \in 1..Len(members) |-> members[k].sales.amount]),
                 order_count |-> Len(members)]]

RECURSIVE SortAscending(_)
\* the groups ordered by total_sales ascending ({"total_sales": 1})
SortAscending(groups) ==
    IF groups = <<>> THEN <<>>
    ELSE LET x    == Head(groups)
             rest == SortAscending(Tail(groups))
             before_x == SelectSeq(rest, LAMBDA g : g.total_sales < x.total_sales)
             after_x  == SelectSeq(rest, LAMBDA g : g.total_sales >= x.total_sales)
         IN  before_x \o <<x>> \o after_x

RECURSIVE SortByTotalSales(_)
\* {"$sort": {"total_sales": -1}}: groups of equal total keep the order given
SortByTotalSales(groups) ==
    IF groups = <<>> THEN <<>>
    ELSE LET x    == Head(groups)
             rest == SortByTotalSales(Tail(groups))
             before_x == SelectSeq(rest, LAMBDA g : g.total_sales > x.total_sales)
             after_x  == SelectSeq(rest, LAMBDA g : g.total_sales <= x.total_sales)
         IN  before_x \o <<x>> \o after_x

\* {"$limit": n}
Limit(s, n) == SubSeq(s, 1, Min(n, Len(s)))

\* the orders in which $group may hand its groups on
GroupOrders(groups) == {groups, Reverse(groups)}

InitAgg ==
    /\ pc = "idle"
    /\ \E n \in 0..MaxAggDocs, s \in StateSpreads, c \in CategorySpreads, p \in AmountPatterns :
          collection = GenCollection(n, s, c, p)
    /\ Idle

\* aggregate_sales_by_region, lines 254-306
AggregateSalesByRegion ==
    /\ pc = "idle"
    /\ \E groups \in GroupOrders(GroupByRegion(MatchAmountPositive(collection))) :
          ret' = Returned(Limit(SortByTotalSales(groups), RegionLimit))
    /\ call' = [op |-> "aggregate_sales_by_region"]
    /\ before' = collection
    /\ UNCHANGED <<pc, collection, documents, batch_size, i, inserted_count, calls,
                   log, created_indexes, table>>

\* aggregate_sales_by_category, lines 308-369
AggregateSalesByCategory ==
    /\ pc = "idle"
    /\ \E groups \in GroupOrders(GroupByCategory(MatchAmountPositive(collection))) :
          ret' = Returned(SortByTotalSales(groups))
    /\ call' = [op |-> "aggregate_sales_by_category"]
    /\ before' = collection
    /\ UNCHANGED <<pc, collection, documents, batch_size, i, inserted_count, calls,
                   log, created_indexes, table>>

\* aggregate_sales_by_region_and_category, lines 371-418
AggregateSalesByRegionAndCategory ==
    /\ pc = "idle"
    /\ \E groups \in GroupOrders(GroupByRegionAndCategory(MatchAmountPositive(collection))) :
          ret' = Returned(Limit(SortByTotalSales(groups), RegionCategoryLimit))
    /\ call' = [op |-> "aggregate_sales_by_region_and_category"]
    /\ before' = collection
    /\ UNCHANGED <<pc, collection, documents, batch_size, i, inserted_count, calls,
                   log, created_indexes, table>>

NextAgg ==
    \/ AggregateSalesByRegion
    \/ AggregateSalesByCategory
    \/ AggregateSalesByRegionAndCategory

SpecAgg == InitAgg /\ [][NextAgg]_vars

Aggregated ==
    call.op \in {"aggregate_sales_by_region", "aggregate_sales_by_category",
                 "aggregate_sales_by_region_and_category"}

AggregateLimits ==
    /\ Called("aggregate_sales_by_region") => Len(ret.value) <= 10
    /\ Called("aggregate_sales_by_region_and_category") => Len(ret.value) <= 15

\* C6 as stated: every entry's total is strictly greater than the next one's,
\* the region result has at most 10 entries, region-and-category at most 15.
AggregatesStrictlyDescending ==
    /\ Aggregated =>
          \A k \in 1..(Len(ret.value) - 1) :
              ret.value[k].total_sales > ret.value[k + 1].total_sales
    /\ AggregateLimits

\* C6 amended: every entry's total is greater than or equal to the next one's
\* (groups may tie), the region result has at most 10 entries and the
\* region-and-category result at most 15.
AggregatesNonIncreasing ==
    /\ Aggregated =>
          \A k \in 1..(Len(ret.value) - 1) :
              ret.value[k].total_sales >= ret.value[k + 1].total_sales
    /\ AggregateLimits

\* C6 witness: a region result cut to 10 of more than 10 states, holding two
\* neighbours with the same total and two with different totals
AggregatesWitness ==
    /\ Called("aggregate_sales_by_region")
    /\ Len(ret.value) = 10
    /\ Cardinality({collection[k].region.state : k \in
                      {j \in 1..Len(collection) : collection[j].sales.amount > 0}}) > 10
    /\ \E k \in 1..9 : ret.value[k].total_sales = ret.value[k + 1].total_sales
    /\ \E k \in 1..9 : ret.value[k].total_sales > ret.value[k + 1].total_sales

(***************************************************************************)
(* main (lines 549-602): the operation sequence inside try, the handler    *)
(* that reports a failure, and the finally clause that closes the          *)
(* connection.  log holds the store requests, the report and the close in  *)
(* the order they happen; call.failed names the step that raised.          *)
(***************************************************************************)
MainSteps == <<"transform", "read", "query", "agg_region", "agg_category",
               "agg_region_category", "update", "stats", "compare">>

StepIndex(step) == CHOOSE k \in 1..Len(MainSteps) : MainSteps[k] = step

\* the store requests a step issues, in order
StoreOps(step, coll) ==
    CASE step = "transform"            -> <<>>
      [] step = "read"                 -> <<"find">>
      [] step = "query"                -> <<"find">>
      [] step = "agg_region"           -> <<"aggregate">>
      [] step = "agg_category"         -> <<"aggregate">>
      [] step = "agg_region_category"  -> <<"aggregate">>
      [] step = "update"               -> IF coll = <<>> THEN <<"find_one">>
                                          ELSE <<"find_one", "update_one">>
      [] step = "stats"                -> <<"count_documents", "aggregate", "aggregate">>
      [] step = "compare"              -> <<>>

StoreEvents(step, ops) ==
    [k \in 1..Len(ops) |-> [kind |-> "store", step |-> step, op |-> ops[k]]]

InitMain ==
    /\ pc = "transform"
    /\ collection \in SeqsUpTo(DocPool, MaxColl)
    /\ before = collection
    /\ call = [op |-> "main", failed |-> "none"]
    /\ log = <<[kind |-> "open"]>>
    /\ documents = <<>> /\ batch_size = 0 /\ i = 0 /\ inserted_count = 0
    /\ calls = <<>> /\ ret = NoReturn /\ created_indexes = <<>> /\ table = None

\* a step of the try block runs to its end
RunStep(step, next) ==
    /\ pc = step
    /\ log' = log \o StoreEvents(step, StoreOps(step, collection))
    /\ collection' = IF step = "update" /\ collection # <<>>
                     THEN UpdateOne(collection, collection[1].order_id, "Updated Status").coll
                     ELSE collection
    /\ pc' = next
    /\ UNCHANGED <<documents, batch_size, i, inserted_count, calls, ret, call,
                   before, created_indexes, table>>

\* a step raises: in its n-th store request, or (transform) reading the file
FailStep(step) ==
    /\ pc = step
    /\ LET ops == StoreOps(step, collection)
       IN  \E n \in (IF step = "transform" THEN {0} ELSE 1..Len(ops)) :
              log' = log \o StoreEvents(step, SubSeq(ops, 1, n))
    /\ call' = [call EXCEPT !.failed = step]
    /\ pc' = "except"
    /\ UNCHANGED <<collection, documents, batch_size, i, inserted_count, calls, ret,
                   before, created_indexes, table>>

MainTransform == RunStep("transform", "read") \/ FailStep("transform")             \* 558-559
MainRead == RunStep("read", "query") \/ FailStep("read")                           \* 566
MainQuery == RunStep("query", "agg_region") \/ FailStep("query")                   \* 569
MainAggRegion == RunStep("agg_region", "agg_category") \/ FailStep("agg_region")   \* 572
MainAggCategory ==                                                                 \* 575
    RunStep("agg_category", "agg_region_category") \/ FailStep("agg_category")
MainAggRegionCategory ==                                                           \* 578
    RunStep("agg_region_category", "update") \/ FailStep("agg_region_category")
MainUpdate == RunStep("update", "stats") \/ FailStep("update")                     \* 582-584
MainStats == RunStep("stats", "compare") \/ FailStep("stats")                      \* 591
MainCompare == RunStep("compare", "finally")                                       \* 594

\* a handler that reports and leaves without the cleanup
MainExceptNoCleanup ==
    /\ pc = "except"
    /\ log' = Append(log, [kind |-> "report"])
    /\ pc' = "done"
    /\ UNCHANGED <<collection, documents, batch_size, i, inserted_count, calls, ret,
                   call, before, created_indexes, table>>

\* except Exception: print the error and the traceback, lines 596-599
MainExcept ==
    /\ pc = "except"
    /\ log' = Append(log, [kind |-> "report"])
    /\ pc' = "finally"
    /\ UNCHANGED <<collection, documents, batch_size, i, inserted_count, calls, ret,
                   call, before, created_indexes, table>>

\* finally: close_connection(), lines 601-602 and 543-546
MainFinally ==
    /\ pc = "finally"
    /\ log' = Append(log, [kind |-> "close"])
    /\ pc' = "done"
    /\ UNCHANGED <<collection, documents, batch_size, i, inserted_count, calls, ret,
                   call, before, created_indexes, table>>

NextMain ==
    \/ MainTransform \/ MainRead \/ MainQuery
    \/ MainAggRegion \/ MainAggCategory \/ MainAggRegionCategory
    \/ MainUpdate \/ MainStats \/ MainCompare
    \/ MainExcept \/ MainFinally

\* main is one sequential thread: a request returns or raises, and the next
\* statement runs
SpecMain == InitMain /\ [][NextMain]_vars /\ WF_vars(NextMain)

Closes == {k \in 1..Len(log) : log[k].kind = "close"}
Reports == {k \in 1..Len(log) : log[k].kind = "report"}
StoreActions == {k \in 1..Len(log) : log[k].kind = "store"}

MainCleanup ==
    /\ Cardinality(Closes) <= 1
    /\ \A k \in Closes : k = Len(log)
    /\ \A k \in Reports : call.failed # "none"
    /\ call.failed # "none" =>
          \A k \in StoreActions : StepIndex(log[k].step) <= StepIndex(call.failed)
    /\ pc = "done" =>
          /\ Cardinality(Closes) = 1
          /\ log[Len(log)].kind = "close"
          /\ IF call.failed = "none"
             THEN /\ Reports = {}
                  /\ \A s \in {"read", "query", "agg_region", "agg_category",
                               "agg_region_category", "update", "stats"} :
                        \E k \in StoreActions : log[k].step = s
             ELSE /\ Cardinality(Reports) = 1
                  /\ log[Len(log) - 1].kind = "report"

\* C3: in every run of main, with the connection open, the connection is
\* eventually closed, exactly once and as the last entry of the log, whichever
\* step fails or none; after a failing step no later step issues a store
\* request, and the failure is reported right before the close.
MainAlwaysCloses == [](MainCleanup) /\ <>(pc = "done" /\ Cardinality(Closes) = 1)

\* C3 witness: a finished run whose stats step failed in its second request,
\* after the update step changed a document
MainClosesWitness ==
    /\ pc = "done" /\ call.failed = "stats"
    /\ collection # before
    /\ Cardinality({k \in StoreActions : log[k].step = "stats"}) = 2
    /\ log[Len(log)].kind = "close"

(***************************************************************************)
(* create_indexes.py: one create_index request per (field, direction)      *)
(* pair, each inside its own try/except; then list_indexes and close.      *)
(* calls holds the requests with their outcome, log every store action.    *)
(***************************************************************************)
ASCENDING == 1
DESCENDING == -1

\* the list `indexes`, lines 16-23
indexes ==
    << <<"date", ASCENDING>>, <<"region.state", ASCENDING>>,
       <<"product.category", ASCENDING>>, <<"sales.amount", DESCENDING>>,
       <<"status", ASCENDING>>, <<"order_id", ASCENDING>> >>

\* f"{field} ({'ASC' if direction == 1 else 'DESC'})", line 29
IndexLabel(field, direction) ==
    [field |-> field, order |-> IF direction = 1 THEN "ASC" ELSE "DESC"]

InitIndex ==
    /\ pc = "index_loop"
    /\ i = 0
    /\ calls = <<>> /\ created_indexes = <<>> /\ log = <<>>
    /\ collection \in SeqsUpTo(DocPool, 1)
    /\ before = collection
    /\ call = [op |-> "create_indexes"]
    /\ documents = <<>> /\ batch_size = 0 /\ inserted_count = 0
    /\ ret = NoReturn /\ table = None

\* lines 27-30: create_index succeeds
CreateIndexOk ==
    /\ pc = "index_loop" /\ i < Len(indexes)
    /\ LET field == indexes[i + 1][1]
           direction == indexes[i + 1][2]
       IN  /\ calls' = Append(calls, [field |-> field, direction |-> direction, ok |-> TRUE])
           /\ log' = Append(log, [op |-> "create_index", field |-> field])
           /\ created_indexes' = Append(created_indexes, IndexLabel(field, direction))
    /\ i' = i + 1
    /\ UNCHANGED <<pc, collection, documents, batch_size, inserted_count, ret, call,
                   before, table>>

\* a loop without the try/except: the first failure ends the script
CreateIndexFailsAborts ==
    /\ pc = "index_loop" /\ i < Len(indexes)
    /\ calls' = Append(calls, [field |-> indexes[i + 1][1],
                               direction |-> indexes[i + 1][2], ok |-> FALSE])
    /\ log' = Append(log, [op |-> "create_index", field |-> indexes[i + 1][1]])
    /\ pc' = "raised"
    /\ UNCHANGED <<collection, documents, batch_size, i, inserted_count, ret, call,
                   before, created_indexes, table>>

\* lines 27-28, 31-32: create_index raises, the handler prints and the loop goes on
CreateIndexFails ==
    /\ pc = "index_loop" /\ i < Len(indexes)
    /\ LET field == indexes[i + 1][1]
           direction == indexes[i + 1][2]
       IN  /\ calls' = Append(calls, [field |-> field, direction |-> direction, ok |-> FALSE])
           /\ log' = Append(log, [op |-> "create_index", field |-> field])
    /\ i' = i + 1
    /\ UNCHANGED <<pc, collection, documents, batch_size, inserted_count, ret, call,
                   before, created_indexes, table>>

\* lines 34-42: the report of created_indexes, then list_indexes
ListIndexes ==
    /\ pc = "index_loop" /\ i >= Len(indexes)
    /\ log' = Append(log, [op |-> "list_indexes"])
    /\ pc' = "close"
    /\ UNCHANGED <<collection, documents, batch_size, i, inserted_count, calls, ret,
                   call, before, created_indexes, table>>

\* lines 44-45
CloseClient ==
    /\ pc = "close"
    /\ log' = Append(log, [op |-> "close"])
    /\ pc' = "done"
    /\ UNCHANGED <<collection, documents, batch_size, i, inserted_count, calls, ret,
                   call, before, created_indexes, table>>

NextIndex == CreateIndexOk \/ CreateIndexFails \/ ListIndexes \/ CloseClient

SpecIndex == InitIndex /\ [][NextIndex]_vars

SixPairs ==
    << <<"date", 1>>, <<"region.state", 1>>, <<"product.category", 1>>,
       <<"sales.amount", -1>>, <<"status", 1>>, <<"order_id", 1>> >>

\* C4: the requests issued are the six pairs, each once and in list order,
\* whatever fails; once the loop is left all six have been attempted; the
\* entries recorded as created are those of the requests that succeeded; and
\* list_indexes comes after the six requests.
IndexesAllAttempted ==
    /\ Len(calls) <= 6
    /\ \A k \in 1..Len(calls) :
          calls[k].field = SixPairs[k][1] /\ calls[k].direction = SixPairs[k][2]
    /\ pc # "index_loop" => Len(calls) = 6
    /\ {created_indexes[k] : k \in 1..Len(created_indexes)} =
          {[field |-> calls[k].field,
            order |-> IF calls[k].direction = 1 THEN "ASC" ELSE "DESC"] :
              k \in {j \in 1..Len(calls) : calls[j].ok}}
    /\ Len(created_indexes) = Cardinality({j \in 1..Len(calls) : calls[j].ok})
    /\ \A k \in 1..Len(log) :
          /\ (k <= 6 <=> log[k].op = "create_index")
          /\ (log[k].op = "create_index" => log[k].field = SixPairs[k][1])
          /\ (log[k].op = "list_indexes" => k = 7)

\* C4 witness: a finished run in which a request failed, a later one
\* succeeded, and the descending index was created
IndexesWitness ==
    /\ pc = "done"
    /\ \E j, k \in 1..Len(calls) : j < k /\ ~calls[j].ok /\ calls[k].ok
    /\ ~calls[6].ok
    /\ [field |-> "sales.amount", order |-> "DESC"] \in
          {created_indexes[k] : k \in 1..Len(created_indexes)}

(***************************************************************************)
(* transform_csv_to_json (lines 36-156).                                    *)
(* table is the file: which of the columns it has, and its rows as the     *)
(* text of their cells.  pd.read_csv types a column by its cells: a column *)
(* whose non-empty cells are all numbers is numeric, one with any other    *)
(* text keeps every non-empty cell as a string; an empty cell is NaN.      *)
(* A number is [int, frac]: int + frac/10.                                 *)
(***************************************************************************)
MaxRows == 2

RawCells == {"", "3", "2.5", "abc"}

NaN == [t |-> "nan"]
Absent == [t |-> "none"]
Num(n, f) == [t |-> "num", int |-> n, frac |-> f]
Str(text) == [t |-> "str", s |-> text]

IsNumber(text) == text \in {"3", "2.5"}

\* the number a numeric literal denotes
Literal(text) == IF text = "3" THEN Num(3, 0) ELSE Num(2, 5)

\* pd.read_csv, line 86: the value of a cell in its typed column
ReadCell(column, text) ==
    IF text = "" THEN NaN
    ELSE IF \A k \in 1..Len(column) : column[k] = "" \/ IsNumber(column[k])
         THEN Literal(text)
         ELSE Str(text)

\* row.get(name, default), lines 132 and 134
RowGet(t, k, name, default) ==
    IF name \in t.columns
    THEN ReadCell([j \in 1..Len(t.rows) |-> t.rows[j][name]], t.rows[k][name])
    ELSE default

\* pd.notna(value)
NotNa(v) == v.t \notin {"nan", "none"}

\* int(value): a float is truncated, a string must be an integer literal
ToInt(v) ==
    CASE v.t = "num" -> Returned(v.int)
      [] v.t = "str" -> IF v.s = "3" THEN Returned(3) ELSE Raised
      [] OTHER       -> Raised

\* float(value): a string must be a numeric literal
ToFloat(v) ==
    CASE v.t = "num" -> Returned(v)
      [] v.t = "str" -> IF IsNumber(v.s) THEN Returned(Literal(v.s)) ELSE Raised
      [] OTHER       -> Raised

\* a conversion without the notna guard
QuantityUnguarded(t, k) == ToInt(RowGet(t, k, "Qty", Num(0, 0)))

\* int(row.get('Qty', 0)) if pd.notna(row.get('Qty')) else 0, line 132
Quantity(t, k) ==
    IF NotNa(RowGet(t, k, "Qty", Absent))
    THEN ToInt(RowGet(t, k, "Qty", Num(0, 0)))
    ELSE Returned(0)

\* float(row.get('Amount', 0)) if pd.notna(row.get('Amount')) else 0.0, line 134
Amount(t, k) ==
    IF NotNa(RowGet(t, k, "Amount", Absent))
    THEN ToFloat(RowGet(t, k, "Amount", Num(0, 0)))
    ELSE Returned(Num(0, 0))

\* the cells of a column of the file, top to bottom
Column(t, name) == [j \in 1..Len(t.rows) |-> t.rows[j][name]]

\* a numeric column is float64 when a cell is empty or has a fraction, else int64
IsFloatColumn(column) == \E k \in 1..Len(column) : column[k] \in {"", "2.5"}

\* str(value): NaN prints as 'nan', a float with its fraction, text as it is
PyStr(v, float) ==
    CASE v.t = "str" -> v.s
      [] v.t = "nan" -> "nan"
      [] v.t = "num" -> IF v.frac # 0 THEN "2.5"
                        ELSE IF float THEN "3.0" ELSE "3"

\* str(row.get(name, '')), lines 98-141
StrField(t, k, name) ==
    IF name \in t.columns
    THEN PyStr(ReadCell(Column(t, name), t.rows[k][name]), IsFloatColumn(Column(t, name)))
    ELSE ""

(***************************************************************************)
(* The promotion-ids column, lines 148-151.  Its cells are sequences of    *)
(* characters, so that split(',') and strip() work on them as in Python.   *)
(***************************************************************************)
IsDigits(cell) == cell # <<>> /\ \A j \in 1..Len(cell) : cell[j] \in {"1", "2"}

\* pd.read_csv, line 86, on a column of character cells: an empty cell is NaN;
\* a column whose other cells are all numbers is numeric (float64 as soon as
\* one cell is empty), any other column keeps the text
ReadChars(column, cell) ==
    IF cell = <<>> THEN NaN
    ELSE IF \A k \in 1..Len(column) : column[k] = <<>> \/ IsDigits(column[k])
         THEN [t |-> "num", digits |-> cell,
               float |-> \E k \in 1..Len(column) : column[k] = <<>>]
         ELSE [t |-> "str", s |-> cell]

\* row.get('promotion-ids')
PromotionIds(t, k) ==
    IF "promotion-ids" \in t.columns
    THEN ReadChars(Column(t, "promotion-ids"), t.rows[k]["promotion-ids"])
    ELSE Absent

\* str(value) as characters: a float prints with its fraction
StrChars(v) ==
    CASE v.t = "str" -> v.s
      [] v.t = "num" -> IF v.float THEN v.digits \o <<".", "0">> ELSE v.digits
      [] v.t = "nan" -> <<"n", "a", "n">>
      [] OTHER       -> <<"N", "o", "n", "e">>

RECURSIVE LStrip(_)
LStrip(s) == IF s # <<>> /\ Head(s) = " " THEN LStrip(Tail(s)) ELSE s

RECURSIVE RStrip(_)
RStrip(s) == IF s # <<>> /\ s[Len(s)] = " " THEN RStrip(SubSeq(s, 1, Len(s) - 1)) ELSE s

\* p.strip()
Strip(s) == RStrip(LStrip(s))

RECURSIVE Split(_)
\* promotions_str.split(','): the pieces between the commas, empty ones included
Split(s) ==
    IF \E j \in 1..Len(s) : s[j] = ","
    THEN LET j == CHOOSE x \in 1..Len(s) : s[x] = "," /\ \A y \in 1..(x - 1) : s[y] # ","
         IN  <<SubSeq(s, 1, j - 1)>> \o Split(SubSeq(s, j + 1, Len(s)))
    ELSE <<s>>

\* lines 145-151: [] unless the cell is there and not blank, else the trimmed
\* non-empty pieces
Promotions(t, k) ==
    LET value == PromotionIds(t, k)
    IN  IF NotNa(value) /\ Strip(StrChars(value)) # <<>>
        THEN LET pieces == Split(StrChars(value))
             IN  SelectSeq([j \in 1..Len(pieces) |-> Strip(pieces[j])],
                           LAMBDA p : p # <<>>)
        ELSE <<>>

\* the document built for row k, lines 97-151 (date and sales.b2b left out)
Document(t, k, quantity, amount, promotions) ==
    [order_id |-> StrField(t, k, "Order ID"),
     status   |-> StrField(t, k, "Status"),
     customer |-> [city        |-> StrField(t, k, "ship-city"),
                   state       |-> StrField(t, k, "ship-state"),
                   postal_code |-> StrField(t, k, "ship-postal-code"),
                   country     |-> StrField(t, k, "ship-country")],
     product  |-> [style    |-> StrField(t, k, "Style"),
                   sku      |-> StrField(t, k, "SKU"),
                   category |-> StrField(t, k, "Category"),
                   size     |-> StrField(t, k, "Size"),
                   asin     |-> StrField(t, k, "ASIN")],
     region   |-> [city        |-> StrField(t, k, "ship-city"),
                   state       |-> StrField(t, k, "ship-state"),
                   postal_code |-> StrField(t, k, "ship-postal-code"),
                   country     |-> StrField(t, k, "ship-country")],
     sales    |-> [channel       |-> StrField(t, k, "Sales Channel "),
                   fulfilment    |-> StrField(t, k, "Fulfilment"),
                   service_level |-> StrField(t, k, "ship-service-level"),
                   quantity      |-> quantity,
                   currency      |-> StrField(t, k, "currency"),
                   amount        |-> amount],
     fulfillment |-> [fulfilled_by   |-> StrField(t, k, "fulfilled-by"),
                      courier_status |-> StrField(t, k, "Courier Status")],
     promotions |-> promotions]

Tables ==
    UNION { [columns : {cols},
             rows : SeqsUpTo([Qty : IF "Qty" \in cols THEN RawCells ELSE {""},
                              Amount : IF "Amount" \in cols THEN RawCells ELSE {""}],
                             MaxRows)] : cols \in SUBSET {"Qty", "Amount"} }

InitTransform ==
    /\ pc = "transform_loop"
    /\ table \in Tables
    /\ documents = <<>> /\ i = 0
    /\ call = [op |-> "transform_csv_to_json"]
    /\ collection = <<>> /\ before = <<>>
    /\ batch_size = 0 /\ inserted_count = 0 /\ calls = <<>> /\ ret = NoReturn
    /\ log = <<>> /\ created_indexes = <<>>

\* one iteration of the loop over df.iterrows(), lines 89-153
TransformRow ==
    /\ pc = "transform_loop" /\ i < Len(table.rows)
    /\ LET quantity == Quantity(table, i + 1)
           amount   == Amount(table, i + 1)
       IN  IF quantity = Raised \/ amount = Raised
           THEN /\ pc' = "raised" /\ ret' = Raised
                /\ UNCHANGED <<documents, i>>
           ELSE /\ documents' = Append(documents,
                                  Document(table, i + 1, quantity.value, amount.value,
                                           Promotions(table, i + 1)))
                /\ i' = i + 1
                /\ UNCHANGED <<pc, ret>>
    /\ UNCHANGED <<collection, batch_size, inserted_count, calls, call, before, log,
                   created_indexes, table>>

\* lines 155-156
TransformReturn ==
    /\ pc = "transform_loop" /\ i >= Len(table.rows)
    /\ ret' = Returned(documents)
    /\ pc' = "returned"
    /\ UNCHANGED <<collection, documents, batch_size, i, inserted_count, calls, call,
                   before, log, created_indexes, table>>

NextTransform == TransformRow \/ TransformReturn

SpecTransform == InitTransform /\ [][NextTransform]_vars

\* the cell of row k in a column is absent (no such column) or empty
Missing(k, name) == name \notin table.columns \/ table.rows[k][name] = ""

\* the cell is there and is text that is no number
NonNumeric(k, name) == name \in table.columns /\ table.rows[k][name] = "abc"

\* C10 as stated: the transformation never fails and ends with one document
\* per row, whose quantity is 0 (amount 0.0) whenever the Qty (Amount) cell is
\* absent, empty or non-numeric text.
TransformDefaultsAnyCell ==
    pc # "transform_loop" =>
        /\ pc = "returned"
        /\ Len(documents) = Len(table.rows)
        /\ \A k \in 1..Len(documents) :
              /\ (Missing(k, "Qty") \/ NonNumeric(k, "Qty")) =>
                     documents[k].sales.quantity = 0
              /\ (Missing(k, "Amount") \/ NonNumeric(k, "Amount")) =>
                     documents[k].sales.amount = [t |-> "num", int |-> 0, frac |-> 0]

\* C10 amended: every document emitted has quantity 0 (amount 0.0) whenever
\* the Qty (Amount) cell of its row is absent or empty; the transformation
\* fails only at a row that has a non-empty Qty or Amount cell, in a column
\* holding non-numeric text, and then it returns nothing; a non-numeric text
\* cell always makes it fail; when it does not fail it returns one document
\* per row, in order.
TransformDefaultsMissingCell ==
    /\ \A k \in 1..Len(documents) :
          /\ Missing(k, "Qty") => documents[k].sales.quantity = 0
          /\ Missing(k, "Amount") =>
                documents[k].sales.amount = [t |-> "num", int |-> 0, frac |-> 0]
    /\ Len(documents) = i
    /\ pc = "returned" =>
          /\ Len(documents) = Len(table.rows)
          /\ ret = Returned(documents)
          /\ \A k \in 1..Len(table.rows) : ~NonNumeric(k, "Qty") /\ ~NonNumeric(k, "Amount")
    /\ pc = "raised" =>
          /\ ret = Raised
          /\ ~(Missing(i + 1, "Qty") /\ Missing(i + 1, "Amount"))
          /\ \E k \in 1..Len(table.rows) : NonNumeric(k, "Qty") \/ NonNumeric(k, "Amount")

\* C10 witness: a run that returned a document for a row whose Qty cell is
\* empty and whose Amount column is absent, after a row with a Qty of 2.5
TransformDefaultsWitness ==
    /\ pc = "returned" /\ Len(documents) = 2
    /\ "Qty" \in table.columns /\ "Amount" \notin table.columns
    /\ table.rows[1].Qty = "2.5" /\ documents[1].sales.quantity = 2
    /\ table.rows[2].Qty = ""
    /\ documents[2].sales.quantity = 0

(***************************************************************************)
(* transform_csv_to_json on files that have some of the text columns.      *)
(***************************************************************************)
TextCells == {"", "abc", "3"}

TextTables ==
    UNION { [columns : {cols},
             rows : SeqsUpTo([cols -> TextCells], MaxRows)] :
               cols \in SUBSET {"Order ID", "Status", "ship-state"} }

InitTransformText ==
    /\ pc = "transform_loop"
    /\ table \in TextTables
    /\ documents = <<>> /\ i = 0
    /\ call = [op |-> "transform_csv_to_json"]
    /\ collection = <<>> /\ before = <<>>
    /\ batch_size = 0 /\ inserted_count = 0 /\ calls = <<>> /\ ret = NoReturn
    /\ log = <<>> /\ created_indexes = <<>>

SpecTransformText == InitTransformText /\ [][NextTransform]_vars

\* every string-typed destination field of a document with its source column
StringValues(d) ==
    { <<"Order ID", d.order_id>>, <<"Status", d.status>>,
      <<"ship-city", d.customer.city>>, <<"ship-state", d.customer.state>>,
      <<"ship-postal-code", d.customer.postal_code>>,
      <<"ship-country", d.customer.country>>,
      <<"Style", d.product.style>>, <<"SKU", d.product.sku>>,
      <<"Category", d.product.category>>, <<"Size", d.product.size>>,
      <<"ASIN", d.product.asin>>,
      <<"ship-city", d.region.city>>, <<"ship-state", d.region.state>>,
      <<"ship-postal-code", d.region.postal_code>>,
      <<"ship-country", d.region.country>>,
      <<"Sales Channel ", d.sales.channel>>, <<"Fulfilment", d.sales.fulfilment>>,
      <<"ship-service-level", d.sales.service_level>>, <<"currency", d.sales.currency>>,
      <<"fulfilled-by", d.fulfillment.fulfilled_by>>,
      <<"Courier Status", d.fulfillment.courier_status>> }

\* C11: every string-typed field of every document is the empty string when
\* its source value is missing, whether the file has no such column or the
\* column is there and the row's cell is empty.
StringsDefaultToEmpty ==
    \A k \in 1..Len(documents) :
        \A p \in StringValues(documents[k]) :
            Missing(k, p[1]) => p[2] = ""

\* C11, the part the code keeps: a field whose column the file does not have
\* is the empty string, and a field whose cell is empty is 'nan'.
StringsOfAbsentColumnsEmpty ==
    \A k \in 1..Len(documents) :
        \A p \in StringValues(documents[k]) :
            /\ p[1] \notin table.columns => p[2] = ""
            /\ (p[1] \in table.columns /\ table.rows[k][p[1]] = "") => p[2] = "nan"

(***************************************************************************)
(* transform_csv_to_json on files with (or without) a promotion-ids column *)
(***************************************************************************)
MaxCellLen == 4

PromoChars == {"P", "Q", ",", " "}

\* "P1, P2 ,,P3"
ExampleCell == <<"P", "1", ",", " ", "P", "2", " ", ",", ",", "P", "3">>

PromoCells == SeqsUpTo(PromoChars, MaxCellLen) \cup {ExampleCell, <<"1", "2">>}

PromoRow(cell) == [c \in {"promotion-ids"} |-> cell]

PromoTables ==
    {[columns |-> {}, rows |-> << <<>> >>]}
    \cup {[columns |-> {"promotion-ids"}, rows |-> <<PromoRow(c)>>] : c \in PromoCells}
    \cup {[columns |-> {"promotion-ids"}, rows |-> <<PromoRow(c), PromoRow(d)>>] :
             c \in PromoCells, d \in {<<>>, <<"Q">>}}

InitTransformPromotions ==
    /\ pc = "transform_loop"
    /\ table \in PromoTables
    /\ documents = <<>> /\ i = 0
    /\ call = [op |-> "transform_csv_to_json"]
    /\ collection = <<>> /\ before = <<>>
    /\ batch_size = 0 /\ inserted_count = 0 /\ calls = <<>> /\ ret = NoReturn
    /\ log = <<>> /\ created_indexes = <<>>

SpecTransformPromotions == InitTransformPromotions /\ [][NextTransform]_vars

\* the text of the promotion-ids cell of row k; empty when the column is missing
PromoCell(k) ==
    IF "promotion-ids" \in table.columns THEN table.rows[k]["promotion-ids"] ELSE <<>>

\* the tokens of a cell: for each stretch between two commas (or an end of
\* the cell) that holds a character other than a blank, the characters from
\* its first to its last non-blank one
TokensOf(cell) ==
    LET bounds == {j \in 1..Len(cell) : cell[j] = ","} \cup {0, Len(cell) + 1}
        next(b) == CHOOSE x \in bounds : x > b /\ \A y \in bounds : y > b => x <= y
        inked(b) == {j \in (b + 1)..(next(b) - 1) : cell[j] # " "}
        starts == {b \in bounds \ {Len(cell) + 1} : inked(b) # {}}
        nth(n) == CHOOSE b \in starts : Cardinality({x \in starts : x < b}) = n - 1
        low(b) == CHOOSE j \in inked(b) : \A h \in inked(b) : j <= h
        high(b) == CHOOSE j \in inked(b) : \A h \in inked(b) : j >= h
    IN  [n \in 1..Cardinality(starts) |-> SubSeq(cell, low(nth(n)), high(nth(n)))]

Trimmed(token) == token # <<>> /\ token[1] # " " /\ token[Len(token)] # " "

\* C12: the promotions of every document are the tokens of its row's
\* promotion-ids cell (split on commas, trimmed, empty ones dropped, in
\* order), the empty sequence for an empty, blank or missing cell, and no
\* element is empty or starts or ends with a blank.
PromotionsAreCellTokens ==
    \A k \in 1..Len(documents) :
        /\ documents[k].promotions = TokensOf(PromoCell(k))
        /\ \A n \in 1..Len(documents[k].promotions) : Trimmed(documents[k].promotions[n])

\* C12 for the cells pandas keeps as text (every column but one made of bare
\* numbers): the promotions are the tokens of the cell.
PromotionsAreTextTokens ==
    \A k \in 1..Len(documents) :
        /\ (\E j \in 1..Len(table.rows) : ~IsDigits(PromoCell(j)) /\ PromoCell(j) # <<>>) =>
               documents[k].promotions = TokensOf(PromoCell(k))
        /\ \A n \in 1..Len(documents[k].promotions) : Trimmed(documents[k].promotions[n])

\* C12, its example: the cell "P1, P2 ,,P3" gives P1, P2, P3
PromotionsExampleReached ==
    /\ pc = "returned" /\ PromoCell(1) = ExampleCell
    /\ documents[1].promotions = << <<"P", "1">>, <<"P", "2">>, <<"P", "3">> >>

(***************************************************************************)
(* get_collection_stats (lines 506-541) after insert_orders,               *)
(* update_order_status and delete_order calls.  insert_orders is taken     *)
(* here as one step: all its batches, or the documents written before one  *)
(* of its bulk-insert calls raised.                                        *)
(***************************************************************************)
MaxInsert == 2

\* Python's None as a value of the result
PyNone == [py |-> "None"]

RECURSIVE InsertBatches(_, _, _, _)
\* the loop of insert_orders, lines 181-185, every call acknowledged
InsertBatches(coll, docs, from, size) ==
    IF from >= Len(docs) THEN coll
    ELSE InsertBatches(InsertMany(coll, Batch(docs, from, size)), docs, from + size, size)

\* collection.count_documents({})
CountDocuments(coll) == Len(coll)

\* {"$group": {"_id": "$status", "count": {"$sum": 1}}}, line 515
GroupByStatus(coll) ==
    LET keys == Distinct([k \in 1..Len(coll) |-> coll[k].status])
    IN  [g \in 1..Len(keys) |->
            [_id |-> keys[g],
             count |-> Len(SelectSeq(coll, LAMBDA d : d.status = keys[g]))]]

RECURSIVE SortByCountAscending(_)
\* the groups ordered by count ascending ({"count": 1})
SortByCountAscending(groups) ==
    IF groups = <<>> THEN <<>>
    ELSE LET x    == Head(groups)
             rest == SortByCountAscending(Tail(groups))
             before_x == SelectSeq(rest, LAMBDA g : g.count < x.count)
             after_x  == SelectSeq(rest, LAMBDA g : g.count >= x.count)
         IN  before_x \o <<x>> \o after_x

RECURSIVE SortByCount(_)
\* {"$sort": {"count": -1}}, line 516: groups of equal count keep the order given
SortByCount(groups) ==
    IF groups = <<>> THEN <<>>
    ELSE LET x    == Head(groups)
             rest == SortByCount(Tail(groups))
             before_x == SelectSeq(rest, LAMBDA g : g.count > x.count)
             after_x  == SelectSeq(rest, LAMBDA g : g.count <= x.count)
         IN  before_x \o <<x>> \o after_x

\* the $group with _id None, lines 524-531: one result, or none for an empty
\* collection
DateRange(coll) ==
    IF coll = <<>> THEN <<>>
    ELSE LET dates == {coll[k].date : k \in 1..Len(coll)}
         IN  << [_id |-> None,
                 min_date |-> CHOOSE d \in dates : \A e \in dates : d <= e,
                 max_date |-> CHOOSE d \in dates : \A e \in dates : d >= e] >>

\* insert_orders(documents, batch_size), lines 158-188
InsertOrders ==
    /\ pc = "idle"
    /\ \E docs \in SeqsUpTo(DocPool, MaxInsert), size \in 1..MaxBatch :
         /\ Len(collection) + Len(docs) <= MaxColl
         /\ call' = [op |-> "insert_orders", documents |-> docs]
         /\ \/ /\ collection' = InsertBatches(collection, docs, 0, size)
               /\ ret' = Returned(Len(docs))
            \/ /\ docs # <<>>
               /\ \E n \in 0..Len(docs) : collection' = collection \o SubSeq(docs, 1, n)
               /\ ret' = Raised
    /\ before' = collection
    /\ log' = <<>>
    /\ UNCHANGED <<pc, documents, batch_size, i, inserted_count, calls,
                   created_indexes, table>>

\* get_collection_stats(), lines 506-541
GetCollectionStats ==
    /\ pc = "idle"
    /\ \E groups \in GroupOrders(GroupByStatus(collection)) :
         LET date_range == DateRange(collection)
         IN  ret' = Returned(
                 [total_documents |-> CountDocuments(collection),
                  status_counts   |-> SortByCount(groups),
                  date_range      |-> IF date_range # <<>> THEN date_range[1] ELSE PyNone])
    /\ call' = [op |-> "get_collection_stats"]
    /\ before' = collection
    /\ log' = <<>>
    /\ UNCHANGED <<pc, collection, documents, batch_size, i, inserted_count, calls,
                   created_indexes, table>>

InitStats ==
    /\ pc = "idle"
    /\ collection = <<>>
    /\ Idle

NextStats == InsertOrders \/ UpdateOrderStatus \/ DeleteOrder \/ GetCollectionStats

SpecStats == InitStats /\ [][NextStats]_vars

WithStatus(st) == {k \in 1..Len(collection) : collection[k].status = st}

\* C13: after any insert_orders, update_order_status and delete_order calls,
\* get_collection_stats returns the number of documents as total, a status
\* histogram with one entry per status present, each with the number of
\* documents of that status (summing to the total), in non-increasing order of
\* count, and the least and greatest date of the collection, or None exactly
\* when the collection is empty.
StatsMatchCollection ==
    Called("get_collection_stats") =>
        LET stats == ret.value
            hist  == stats.status_counts
        IN  /\ stats.total_documents = Len(collection)
            /\ {hist[n]._id : n \in 1..Len(hist)} =
                  {collection[k].status : k \in 1..Len(collection)}
            /\ \A m, n \in 1..Len(hist) : m # n => hist[m]._id # hist[n]._id
            /\ \A n \in 1..Len(hist) :
                  hist[n].count = Cardinality(WithStatus(hist[n]._id))
            /\ SumSeq([n \in 1..Len(hist) |-> hist[n].count]) = stats.total_documents
            /\ \A n \in 1..(Len(hist) - 1) : hist[n].count >= hist[n + 1].count
            /\ (stats.date_range = [py |-> "None"]) <=> (collection = <<>>)
            /\ collection # <<>> =>
                  /\ \A k \in 1..Len(collection) :
                        /\ stats.date_range.min_date <= collection[k].date
                        /\ collection[k].date <= stats.date_range.max_date
                  /\ \E k \in 1..Len(collection) :
                        collection[k].date = stats.date_range.min_date
                  /\ \E k \in 1..Len(collection) :
                        collection[k].date = stats.date_range.max_date
                  /\ stats.date_range.min_date <= stats.date_range.max_date

\* C13 witness: statistics of a collection that inserts filled and an update
\* changed, with two statuses of which one has two documents
StatsWitness ==
    /\ Called("get_collection_stats")
    /\ Len(ret.value.status_counts) = 2
    /\ ret.value.status_counts[1].count = 2
    /\ \E k \in 1..Len(collection) : collection[k].status = "Updated Status"
    /\ ret.value.date_range # [py |-> "None"]
    /\ ret.value.date_range.min_date < ret.value.date_range.max_date

\* statistics of the empty collection: total 0, no histogram entry
StatsEmptyCollectionReached ==
    /\ Called("get_collection_stats") /\ collection = <<>>
    /\ ret.value.total_documents = 0 /\ ret.value.status_counts = <<>>

====
